---- MODULE Spec2Model ----
(***************************************************************************)
(* Grocery inventory backend: products, the stock ledger (transactions)    *)
(* and the request handlers that change them.                              *)
(*                                                                         *)
(* The database is the committed state (products, ledger, users,           *)
(* categories, suppliers and the two autoincrement counters).  A handler   *)
(* is a function from the committed state and a request to a new committed *)
(* state and a response; the work it does on the SQLAlchemy session before *)
(* the commit is kept in a session record that commit writes out and       *)
(* rollback / request teardown throws away.                                *)
(***************************************************************************)
EXTENDS Integers, Sequences, FiniteSets, TLC

\* ------------------------------------------------------------------ bounds
MaxQty == 2        \* largest stored quantity explored
MaxProducts == 1   \* product ids the autoincrement hands out
MaxLedger == 1     \* transaction ids the autoincrement hands out
MaxReq == 2        \* concurrently running requests (SpecConc)
MaxConcLedger == 2 \* transaction ids handed out in SpecConc
MaxCatalog == 2    \* products ever inserted (SpecCatalog)
MaxItems == 2      \* products in stock (SpecFrame)
MaxFrameLedger == 2 \* transaction ids handed out in SpecFrame
MaxDay == 6        \* days the clock runs (SpecExpiry)
MaxUsers == 2      \* users that register (SpecAuth)
MaxAdvances == 2   \* steps of the clock (SpecStats)
MaxStatsLedger == 2 \* transaction ids handed out in SpecStats

\* --------------------------------------------------------- program constants
LowStockLimit == 10   \* the literal of the low-stock checks
DefaultRangeDays == 30  \* timedelta(days=30) of the statistics
HoursPerDay == 24       \* the clock counts hours
DefaultThreshold == 10  \* is_low_stock(self, threshold=10)
MinPasswordLen == 6     \* register: len(password) < 6
DefaultExpiringDays == 7  \* request.args.get('days', 7, type=int)
NoDate == -1            \* expiry_date is NULL; days are counted from 0

\* -------------------------------------------------------------- JSON values
JInt(n) == [t |-> "int", v |-> n]
JBad == [t |-> "str", v |-> 0]      \* a string that is not a number ("abc")
JEmpty == [t |-> "empty", v |-> 0]  \* the empty string
JNull == [t |-> "null", v |-> 0]
JAbsent == [t |-> "absent", v |-> 0]
\* a string 'YYYY-MM-DD' that names a day of the calendar, kept as the
\* number of that day (date.toordinal, counted from the day the clock starts)
JDate(day) == [t |-> "date", v |-> day]

\* notes are strings over a tiny alphabet, kept as sequences of characters
NotesStr(s) == [t |-> "str", s |-> s]
NotesAbsent == [t |-> "absent", s |-> <<>>]
NotesNull == [t |-> "null", s |-> <<>>]
NoneNotes == [t |-> "null", s |-> <<>>]   \* Python None as stored

RECURSIVE lstrip(_)
lstrip(s) == IF s # <<>> /\ Head(s) = " " THEN lstrip(Tail(s)) ELSE s

RECURSIVE rstrip(_)
rstrip(s) ==
    IF s # <<>> /\ s[Len(s)] = " " THEN rstrip(SubSeq(s, 1, Len(s) - 1)) ELSE s

strip(s) == rstrip(lstrip(s))

\* int(x) of Python on a JSON value
int(j) ==
    CASE j.t = "int" -> [raised |-> "none", v |-> j.v]
      [] j.t \in {"str", "empty"} -> [raised |-> "ValueError", v |-> 0]
      [] OTHER -> [raised |-> "TypeError", v |-> 0]

\* bool(value) of a JSON value
Truthy(j) ==
    \/ j.t \in {"str", "date"}
    \/ j.t = "int" /\ j.v # 0

\* parse_date: the date a string 'YYYY-MM-DD' names, None for anything else
parse_date(j) == IF j.t = "date" THEN j.v ELSE NoDate

\* ------------------------------------------------------------------- state
VARIABLES
    products,         \* products table: id -> row
    ledger,           \* transactions table: set of rows
    users,            \* users table: id -> row
    categories,       \* ids of the categories table
    suppliers,        \* ids of the suppliers table
    next_product_id,  \* autoincrement of products.id
    next_tx_id,       \* autoincrement of transactions.id
    now,              \* the clock (datetime.utcnow)
    reqs              \* requests between their checks and their commit

vars == <<products, ledger, users, categories, suppliers,
          next_product_id, next_tx_id, now, reqs>>

\* the committed database as one value
DB ==
    [products |-> products, ledger |-> ledger, users |-> users,
     categories |-> categories, suppliers |-> suppliers,
     next_product_id |-> next_product_id, next_tx_id |-> next_tx_id,
     now |-> now]

Install(db) ==
    /\ products' = db.products
    /\ ledger' = db.ledger
    /\ users' = db.users
    /\ categories' = db.categories
    /\ suppliers' = db.suppliers
    /\ next_product_id' = db.next_product_id
    /\ next_tx_id' = db.next_tx_id
    /\ now' = db.now

\* ---------------------------------------------------------------- entities
NoTransaction ==
    [id |-> 0, product_id |-> 0, user_id |-> 0, type |-> "none",
     quantity |-> 0, notes |-> NoneNotes, date |-> 0]

\* Transaction(product_id=, user_id=, type=, quantity=, notes=): id and date
\* are filled in by the INSERT
Transaction(product_id, user_id, type, quantity, notes) ==
    [id |-> 0, product_id |-> product_id, user_id |-> user_id, type |-> type,
     quantity |-> quantity, notes |-> notes, date |-> 0]

NoBarcode == 0

Product(id, sku, barcode, quantity, category_id, supplier_id) ==
    [id |-> id, sku |-> sku, barcode |-> barcode, quantity |-> quantity,
     category_id |-> category_id, supplier_id |-> supplier_id,
     expiry_date |-> NoDate]

\* datetime.now().date(): the day of the server's local clock
LocalDate(db, utc_offset) == (db.now + utc_offset) \div HoursPerDay

\* Product.is_expired with "<=" for "<"
is_expired_inclusive(product, today) ==
    IF product.expiry_date = NoDate THEN FALSE
    ELSE product.expiry_date <= today

\* Product.is_expired, today being datetime.now().date()
is_expired(product, today) ==
    IF product.expiry_date = NoDate THEN FALSE
    ELSE product.expiry_date < today

NoDays == [present |-> FALSE, days |-> 0]

\* Product.days_left_to_expire computing (today - self.expiry_date).days
days_left_to_expire_since(product, today) ==
    IF product.expiry_date = NoDate THEN NoDays
    ELSE [present |-> TRUE, days |-> today - product.expiry_date]

\* Product.days_left_to_expire; NoDays is None
days_left_to_expire(product, today) ==
    IF product.expiry_date = NoDate THEN NoDays
    ELSE [present |-> TRUE, days |-> product.expiry_date - today]

\* Product.is_low_stock with "self.quantity < threshold" for "<="
is_low_stock_below(product, threshold) ==
    [value |-> product.quantity < threshold, self |-> product]

\* Product.is_low_stock: the value it returns, and the object it was called
\* on as the call leaves it
is_low_stock(product, threshold) ==
    [value |-> product.quantity <= threshold, self |-> product]

NoUser == [found |-> FALSE, id |-> 0, role |-> "none"]

\* UserGet falling back to the first user when the identity has no row
UserGet_fallback(db, identity) ==
    IF identity \in DOMAIN db.users
    THEN [found |-> TRUE, id |-> identity, role |-> db.users[identity].role]
    ELSE [found |-> TRUE, id |-> 1, role |-> db.users[1].role]

\* User.query.get(identity)
UserGet(db, identity) ==
    IF identity \in DOMAIN db.users
    THEN [found |-> TRUE, id |-> identity, role |-> db.users[identity].role]
    ELSE NoUser

\* ----------------------------------------------------------------- session
\* the objects a request has loaded and changed, and the rows it has added
\* or marked deleted
EmptySession ==
    [loaded |-> <<>>, dirty |-> <<>>, new |-> <<>>, new_products |-> <<>>,
     del_products |-> {}, del_categories |-> {}, del_suppliers |-> {}]

\* CascadeProducts of relationships declared without cascade: only the
\* products the session itself deletes go
CascadeProducts_direct(db, sess) == sess.del_products

\* rows of products that a cascade from the session's deletions removes
CascadeProducts(db, sess) ==
    sess.del_products \cup
    {p \in DOMAIN db.products :
        \/ db.products[p].category_id \in sess.del_categories
        \/ db.products[p].supplier_id \in sess.del_suppliers}

\* the pending transactions of a session as rows, with the id the
\* autoincrement gives them and the date default (datetime.utcnow)
InsertedTransactions(db, sess) ==
    {[sess.new[i] EXCEPT !.id = db.next_tx_id + i - 1, !.date = db.now] :
        i \in 1..Len(sess.new)}

InsertedProducts(db, sess) ==
    [p \in {db.next_product_id + i - 1 : i \in 1..Len(sess.new_products)} |->
        [sess.new_products[p - db.next_product_id + 1] EXCEPT !.id = p]]

\* UpdatedRow as an UPDATE that applies the object's change of quantity to
\* the row (quantity = quantity + delta) instead of storing the object's value
UpdatedRow_relative(row, loaded, object) ==
    [c \in DOMAIN row |->
        IF object[c] = loaded[c] THEN row[c]
        ELSE IF c = "quantity" THEN row[c] + (object[c] - loaded[c])
        ELSE object[c]]

\* the UPDATE of a changed object sets the columns whose value differs from
\* the one loaded, to the value the object holds
UpdatedRow(row, loaded, object) ==
    [c \in DOMAIN row |-> IF object[c] # loaded[c] THEN object[c] ELSE row[c]]

\* Flushed with the delete-orphan cascade also taking the transactions of a
\* product whose row the session updates
Flushed_orphans_on_update(db, sess) ==
    LET gone == CascadeProducts(db, sess)
        kept == DOMAIN db.products \ gone
        added == InsertedProducts(db, sess)
        rows == [p \in kept \cup DOMAIN added |->
                    IF p \in DOMAIN added THEN added[p]
                    ELSE IF p \in DOMAIN sess.dirty
                    THEN UpdatedRow(db.products[p], sess.loaded[p],
                                    sess.dirty[p])
                    ELSE db.products[p]]
    IN  [db EXCEPT
            !.products = rows,
            !.ledger = {t \in db.ledger :
                           t.product_id \notin gone \cup DOMAIN sess.dirty}
                           \cup InsertedTransactions(db, sess),
            !.categories = db.categories \ sess.del_categories,
            !.suppliers = db.suppliers \ sess.del_suppliers,
            !.next_product_id = db.next_product_id + Len(sess.new_products),
            !.next_tx_id = db.next_tx_id + Len(sess.new)]

\* Flushed with an UPDATE that has no WHERE clause: the change of the
\* session's object is written to every row of the table
Flushed_update_all(db, sess) ==
    LET gone == CascadeProducts(db, sess)
        kept == DOMAIN db.products \ gone
        added == InsertedProducts(db, sess)
        rows == [p \in kept \cup DOMAIN added |->
                    IF p \in DOMAIN added THEN added[p]
                    ELSE IF DOMAIN sess.dirty # {}
                    THEN LET d == CHOOSE d \in DOMAIN sess.dirty : TRUE
                         IN  UpdatedRow(db.products[p], sess.loaded[d],
                                        [sess.dirty[d] EXCEPT !.id = p])
                    ELSE db.products[p]]
    IN  [db EXCEPT
            !.products = rows,
            !.ledger = {t \in db.ledger : t.product_id \notin gone}
                           \cup InsertedTransactions(db, sess),
            !.categories = db.categories \ sess.del_categories,
            !.suppliers = db.suppliers \ sess.del_suppliers,
            !.next_product_id = db.next_product_id + Len(sess.new_products),
            !.next_tx_id = db.next_tx_id + Len(sess.new)]

\* the tables as the flush of a session would leave them
Flushed(db, sess) ==
    LET gone == CascadeProducts(db, sess)
        kept == DOMAIN db.products \ gone
        added == InsertedProducts(db, sess)
        rows == [p \in kept \cup DOMAIN added |->
                    IF p \in DOMAIN added THEN added[p]
                    ELSE IF p \in DOMAIN sess.dirty
                    THEN UpdatedRow(db.products[p], sess.loaded[p],
                                    sess.dirty[p])
                    ELSE db.products[p]]
    IN  [db EXCEPT
            !.products = rows,
            !.ledger = {t \in db.ledger : t.product_id \notin gone}
                           \cup InsertedTransactions(db, sess),
            !.categories = db.categories \ sess.del_categories,
            !.suppliers = db.suppliers \ sess.del_suppliers,
            !.next_product_id = db.next_product_id + Len(sess.new_products),
            !.next_tx_id = db.next_tx_id + Len(sess.new)]

\* the constraints of tables that have no unique index on sku and barcode
ConstraintsHold_no_unique(db, sess) ==
    LET f == Flushed(db, sess)
        ids == DOMAIN f.products
    IN  /\ DOMAIN sess.dirty \subseteq DOMAIN db.products
        /\ \A t \in InsertedTransactions(db, sess) :
              /\ t.product_id \in ids
              /\ t.user_id \in DOMAIN f.users
        /\ \A p \in ids :
              /\ f.products[p].category_id \in f.categories
              /\ f.products[p].supplier_id \in f.suppliers

\* the constraints of the schema that a flush can trip over: an UPDATE of a
\* row that is gone, foreign keys, NOT NULL and the unique columns
ConstraintsHold(db, sess) ==
    LET f == Flushed(db, sess)
        ids == DOMAIN f.products
    IN  /\ DOMAIN sess.dirty \subseteq DOMAIN db.products
        /\ \A t \in InsertedTransactions(db, sess) :
              /\ t.product_id \in ids
              /\ t.user_id \in DOMAIN f.users
        /\ \A p \in ids :
              /\ f.products[p].category_id \in f.categories
              /\ f.products[p].supplier_id \in f.suppliers
        /\ \A p, r \in ids :
              p # r =>
                /\ f.products[p].sku # f.products[r].sku
                /\ \/ f.products[p].barcode = NoBarcode
                   \/ f.products[p].barcode # f.products[r].barcode

\* rollback as a call that leaves the UPDATEs of the session in the tables
rollback_keeps_updates(db, sess) ==
    [db EXCEPT !.products =
        [p \in DOMAIN db.products |->
            IF p \in DOMAIN sess.dirty
            THEN UpdatedRow(db.products[p], sess.loaded[p], sess.dirty[p])
            ELSE db.products[p]]]

\* db.session.rollback(), and the removal of the session when the request
\* ends: nothing of the session reaches the tables
rollback(db, sess) == db

\* commit on tables without transactions: the rows the flush inserted before
\* the storage engine failed stay
commit_nontransactional(db, sess, storage_ok) ==
    IF storage_ok /\ ConstraintsHold(db, sess)
    THEN [raised |-> "none", db |-> Flushed(db, sess)]
    ELSE [raised |-> "Exception",
          db |-> IF ConstraintsHold(db, sess)
                 THEN Flushed(db, [sess EXCEPT !.dirty = <<>>, !.loaded = <<>>])
                 ELSE db]

\* db.session.commit(): the flush and the commit are one transaction;
\* storage_ok is the storage engine accepting it
commit(db, sess, storage_ok) ==
    IF storage_ok /\ ConstraintsHold(db, sess)
    THEN [raised |-> "none", db |-> Flushed(db, sess)]
    ELSE [raised |-> "Exception", db |-> db]

\* ---------------------------------------------------------------- responses
Response(op, status, message) ==
    [op |-> op, status |-> status, message |-> message,
     transaction |-> NoTransaction, quantity |-> 0,
     low_stock_warning |-> FALSE, available |-> 0, requested |-> 0,
     barcode |-> 0]

error_response(op, message, status_code) == Response(op, status_code, message)

\* what a handler returns: the committed state it leaves and its response
Outcome(db, resp) == [db |-> db, response |-> resp]

\* validate_required_fields on one field: absent, None and '' are missing
IsMissing(j) == j.t \in {"absent", "null", "empty"}

validate_required_fields(data, required_fields) ==
    \A i \in 1..Len(required_fields) : ~IsMissing(data[required_fields[i]])

\* ------------------------------------------------------- Transaction model
Raised(kind, message, product) ==
    [raised |-> kind, message |-> message, transaction |-> NoTransaction,
     product |-> product, available |-> 0, requested |-> 0]

\* create_stock_in with "product.quantity = quantity" for "+="
create_stock_in_assign(product, quantity, user, notes) ==
    IF quantity <= 0
    THEN Raised("ValueError",
                "Added Quantity must be positive for STOCK IN", product)
    ELSE IF ~user.found
    THEN Raised("AttributeError", "user.id", product)
    ELSE [raised |-> "none", message |-> "",
          transaction |->
              Transaction(product.id, user.id, "IN", quantity, notes),
          product |-> [product EXCEPT !.quantity = quantity],
          available |-> 0, requested |-> 0]

create_stock_in(product, quantity, user, notes) ==
    IF quantity <= 0
    THEN Raised("ValueError",
                "Added Quantity must be positive for STOCK IN", product)
    ELSE IF ~user.found
    THEN Raised("AttributeError", "user.id", product)
    ELSE [raised |-> "none", message |-> "",
          transaction |->
              Transaction(product.id, user.id, "IN", quantity, notes),
          product |-> [product EXCEPT !.quantity = @ + quantity],
          available |-> 0, requested |-> 0]

\* create_stock_out with "product.quantity <= quantity" for "<"
create_stock_out_strict(product, quantity, user, notes) ==
    IF quantity <= 0
    THEN Raised("ValueError", "Quantity must be positive for STOCK OUT",
                product)
    ELSE IF product.quantity <= quantity
    THEN [Raised("ValueError", "Insufficient stock", product) EXCEPT
              !.available = product.quantity, !.requested = quantity]
    ELSE IF ~user.found
    THEN Raised("AttributeError", "user.id", product)
    ELSE [raised |-> "none", message |-> "",
          transaction |->
              Transaction(product.id, user.id, "OUT", quantity, notes),
          product |-> [product EXCEPT !.quantity = @ - quantity],
          available |-> 0, requested |-> 0]

\* create_stock_out with the two numbers of the error message exchanged
create_stock_out_swapped(product, quantity, user, notes) ==
    IF quantity <= 0
    THEN Raised("ValueError", "Quantity must be positive for STOCK OUT",
                product)
    ELSE IF product.quantity < quantity
    THEN [Raised("ValueError", "Insufficient stock", product) EXCEPT
              !.available = quantity, !.requested = product.quantity]
    ELSE IF ~user.found
    THEN Raised("AttributeError", "user.id", product)
    ELSE [raised |-> "none", message |-> "",
          transaction |->
              Transaction(product.id, user.id, "OUT", quantity, notes),
          product |-> [product EXCEPT !.quantity = @ - quantity],
          available |-> 0, requested |-> 0]

\* create_stock_out storing the movement as a signed quantity
create_stock_out_signed(product, quantity, user, notes) ==
    IF quantity <= 0
    THEN Raised("ValueError", "Quantity must be positive for STOCK OUT",
                product)
    ELSE IF product.quantity < quantity
    THEN [Raised("ValueError", "Insufficient stock", product) EXCEPT
              !.available = product.quantity, !.requested = quantity]
    ELSE IF ~user.found
    THEN Raised("AttributeError", "user.id", product)
    ELSE [raised |-> "none", message |-> "",
          transaction |->
              Transaction(product.id, user.id, "OUT", 0 - quantity, notes),
          product |-> [product EXCEPT !.quantity = @ - quantity],
          available |-> 0, requested |-> 0]

create_stock_out(product, quantity, user, notes) ==
    IF quantity <= 0
    THEN Raised("ValueError", "Quantity must be positive for STOCK OUT",
                product)
    ELSE IF product.quantity < quantity
    THEN [Raised("ValueError", "Insufficient stock", product) EXCEPT
              !.available = product.quantity, !.requested = quantity]
    ELSE IF ~user.found
    THEN Raised("AttributeError", "user.id", product)
    ELSE [raised |-> "none", message |-> "",
          transaction |->
              Transaction(product.id, user.id, "OUT", quantity, notes),
          product |-> [product EXCEPT !.quantity = @ - quantity],
          available |-> 0, requested |-> 0]

\* data.get('notes', '').strip() or None
NotesOf(notes) ==
    CASE notes.t = "absent" -> [raised |-> "none", v |-> NoneNotes]
      [] notes.t = "null" -> [raised |-> "AttributeError", v |-> NoneNotes]
      [] OTHER ->
            [raised |-> "none",
             v |-> IF strip(notes.s) = <<>> THEN NoneNotes
                   ELSE NotesStr(strip(notes.s))]

\* ------------------------------------------------------- transaction routes
\* a product object loaded into the session and changed there
Changed(loaded, object) ==
    [EmptySession EXCEPT !.loaded = (loaded.id :> loaded),
                         !.dirty = (loaded.id :> object)]

\* transaction.to_dict(): the row as the INSERT of this session wrote it
CommittedTransaction(db, sess) ==
    CHOOSE t \in InsertedTransactions(db, sess) : TRUE

\* what the first part of a handler leaves: an error response, or the
\* session it is about to commit
Refused(resp) == [ok |-> FALSE, response |-> resp, sess |-> EmptySession]
Prepared(sess) ==
    [ok |-> TRUE, response |-> Response("none", 0, ""), sess |-> sess]

\* stock_in_begin with "quantity < 0" for "quantity <= 0"
stock_in_begin_negative(db, identity, data) ==
    LET op == "stock_in"
        failed == Refused(error_response(op, "Stock In failed", 500))
    IN
    IF ~validate_required_fields(data, <<"product_id", "quantity">>)
    THEN Refused(error_response(op, "Missing required fields", 400))
    ELSE IF data.product_id.v \notin DOMAIN db.products
    THEN Refused(error_response(op, "Product not found", 404))
    ELSE
    LET current_user == UserGet(db, identity)
        product == db.products[data.product_id.v]
        quantity == int(data.quantity)
        notes == NotesOf(data.notes)
    IN
    IF quantity.raised = "ValueError"
    THEN Refused(error_response(op, "invalid literal for int()", 400))
    ELSE IF quantity.raised # "none" THEN failed
    ELSE IF quantity.v < 0
    THEN Refused(error_response(op, "Quantity must be positive", 400))
    ELSE IF notes.raised # "none" THEN failed
    ELSE
    LET r == create_stock_in(product, quantity.v, current_user, notes.v)
    IN
    IF r.raised = "ValueError" THEN Refused(error_response(op, r.message, 400))
    ELSE IF r.raised # "none" THEN failed
    ELSE Prepared([Changed(product, r.product) EXCEPT
                      !.new = <<r.transaction>>])

\* stock_in up to db.session.add(transaction)
stock_in_begin(db, identity, data) ==
    LET op == "stock_in"
        failed == Refused(error_response(op, "Stock In failed", 500))
    IN
    IF ~validate_required_fields(data, <<"product_id", "quantity">>)
    THEN Refused(error_response(op, "Missing required fields", 400))
    ELSE IF data.product_id.v \notin DOMAIN db.products
    THEN Refused(error_response(op, "Product not found", 404))
    ELSE
    LET current_user == UserGet(db, identity)
        product == db.products[data.product_id.v]
        quantity == int(data.quantity)
        notes == NotesOf(data.notes)
    IN
    IF quantity.raised = "ValueError"
    THEN Refused(error_response(op, "invalid literal for int()", 400))
    ELSE IF quantity.raised # "none" THEN failed
    ELSE IF quantity.v <= 0
    THEN Refused(error_response(op, "Quantity must be positive", 400))
    ELSE IF notes.raised # "none" THEN failed
    ELSE
    LET r == create_stock_in(product, quantity.v, current_user, notes.v)
    IN
    IF r.raised = "ValueError" THEN Refused(error_response(op, r.message, 400))
    ELSE IF r.raised # "none" THEN failed
    ELSE Prepared([Changed(product, r.product) EXCEPT
                      !.new = <<r.transaction>>])

\* stock_in from db.session.commit() on
stock_in_commit(db, sess, storage_ok) ==
    LET op == "stock_in"
        c == commit(db, sess, storage_ok)
        t == CommittedTransaction(db, sess)
    IN
    IF c.raised # "none"
    THEN Outcome(rollback(c.db, sess),
                 error_response(op, "Stock In failed", 500))
    ELSE Outcome(c.db,
                 [Response(op, 201, "Stock IN successful") EXCEPT
                     !.transaction = t,
                     !.quantity = c.db.products[t.product_id].quantity])

stock_in(db, identity, data, storage_ok) ==
    LET b == stock_in_begin(db, identity, data)
    IN  IF b.ok THEN stock_in_commit(db, b.sess, storage_ok)
        ELSE Outcome(rollback(db, b.sess), b.response)

\* stock_out_begin with the quantity checked before the product is looked up
stock_out_begin_late_lookup(db, identity, data) ==
    LET op == "stock_out"
        failed == Refused(error_response(op, "Stock out Failed", 500))
    IN
    IF ~validate_required_fields(data, <<"product_id", "quantity">>)
    THEN Refused(error_response(op, "Missing required fields", 400))
    ELSE
    LET current_user == UserGet(db, identity)
        product == db.products[data.product_id.v]
        quantity == int(data.quantity)
        notes == NotesOf(data.notes)
    IN
    IF quantity.raised = "ValueError"
    THEN Refused(error_response(op, "invalid literal for int()", 400))
    ELSE IF quantity.raised # "none" \/ notes.raised # "none" THEN failed
    ELSE IF quantity.v <= 0
    THEN Refused(error_response(op, "Quantity must be positive", 400))
    ELSE IF data.product_id.v \notin DOMAIN db.products
    THEN Refused(error_response(op, "Product not found", 404))
    ELSE
    LET r == create_stock_out(product, quantity.v, current_user, notes.v)
    IN
    IF r.raised = "ValueError"
    THEN Refused([error_response(op, r.message, 400) EXCEPT
                     !.available = r.available, !.requested = r.requested])
    ELSE IF r.raised # "none" THEN failed
    ELSE Prepared([Changed(product, r.product) EXCEPT
                      !.new = <<r.transaction>>])

\* stock_out up to db.session.add(transaction)
stock_out_begin(db, identity, data) ==
    LET op == "stock_out"
        failed == Refused(error_response(op, "Stock out Failed", 500))
    IN
    IF ~validate_required_fields(data, <<"product_id", "quantity">>)
    THEN Refused(error_response(op, "Missing required fields", 400))
    ELSE IF data.product_id.v \notin DOMAIN db.products
    THEN Refused(error_response(op, "Product not found", 404))
    ELSE
    LET current_user == UserGet(db, identity)
        product == db.products[data.product_id.v]
        quantity == int(data.quantity)
        notes == NotesOf(data.notes)
    IN
    IF quantity.raised = "ValueError"
    THEN Refused(error_response(op, "invalid literal for int()", 400))
    ELSE IF quantity.raised # "none" \/ notes.raised # "none" THEN failed
    ELSE IF quantity.v <= 0
    THEN Refused(error_response(op, "Quantity must be positive", 400))
    ELSE
    LET r == create_stock_out(product, quantity.v, current_user, notes.v)
    IN
    IF r.raised = "ValueError"
    THEN Refused([error_response(op, r.message, 400) EXCEPT
                     !.available = r.available, !.requested = r.requested])
    ELSE IF r.raised # "none" THEN failed
    ELSE Prepared([Changed(product, r.product) EXCEPT
                      !.new = <<r.transaction>>])

\* stock_out_commit with "product.quantity < 10" for "<="
stock_out_commit_below(db, sess, storage_ok) ==
    LET op == "stock_out"
        c == commit(db, sess, storage_ok)
        t == CommittedTransaction(db, sess)
    IN
    IF c.raised # "none"
    THEN Outcome(rollback(c.db, sess),
                 error_response(op, "Stock out Failed", 500))
    ELSE LET new_quantity == c.db.products[t.product_id].quantity
         IN  Outcome(c.db,
                     [Response(op, 201, "Stock OUT successful") EXCEPT
                         !.transaction = t,
                         !.quantity = new_quantity,
                         !.low_stock_warning =
                             (new_quantity < LowStockLimit)])

\* stock_out from db.session.commit() on
stock_out_commit(db, sess, storage_ok) ==
    LET op == "stock_out"
        c == commit(db, sess, storage_ok)
        t == CommittedTransaction(db, sess)
    IN
    IF c.raised # "none"
    THEN Outcome(rollback(c.db, sess),
                 error_response(op, "Stock out Failed", 500))
    ELSE LET new_quantity == c.db.products[t.product_id].quantity
         IN  Outcome(c.db,
                     [Response(op, 201, "Stock OUT successful") EXCEPT
                         !.transaction = t,
                         !.quantity = new_quantity,
                         !.low_stock_warning =
                             (new_quantity <= LowStockLimit)])

stock_out(db, identity, data, storage_ok) ==
    LET b == stock_out_begin(db, identity, data)
    IN  IF b.ok THEN stock_out_commit(db, b.sess, storage_ok)
        ELSE Outcome(rollback(db, b.sess), b.response)

\* ------------------------------------------------------------ barcode utils
\* weighted digit sum of the EAN-13 checksum, from the last digit leftwards
RECURSIVE ean_sum(_, _)
ean_sum(n, w) == IF n = 0 THEN 0 ELSE (n % 10) * w + ean_sum(n \div 10, 4 - w)

\* generate_barcode + EAN(...).get_fullcode(): str(product_id).zfill(12)
\* followed by its check digit, kept as a number
generate_barcode(product_id) ==
    product_id * 10 + ((10 - (ean_sum(product_id, 3) % 10)) % 10)

\* str.upper() on the characters of a SKU
upper(s) ==
    [i \in 1..Len(s) |-> CASE s[i] = "a" -> "A" [] s[i] = "b" -> "B"
                           [] s[i] = "c" -> "C" [] OTHER -> s[i]]

\* ----------------------------------------------------------- product routes
\* Product.query.filter_by(sku=...).first() is not None
SkuExists(db, sku) == \E p \in DOMAIN db.products : db.products[p].sku = sku

insert_product(db, data, barcode_ok, storage_ok) ==
    LET op == "insert_product"
        failed == Outcome(rollback(db, EmptySession),
                          error_response(op, "Product insertion failed!", 500))
    IN
    \* the result of validate_required_fields is not returned: go on
    IF data.sku.t = "absent" THEN failed
    ELSE IF data.sku.t = "str" /\ SkuExists(db, data.sku.s)
    THEN Outcome(db, error_response(op, "SKU already exists", 400))
    ELSE IF data.category_id.t = "absent" THEN failed
    ELSE IF data.category_id.v \notin db.categories
    THEN Outcome(db, error_response(op, "Category not found", 404))
    ELSE IF data.supplier_id.t = "absent" THEN failed
    ELSE IF data.supplier_id.v \notin db.suppliers
    THEN Outcome(db, error_response(op, "Supplier not found", 404))
    ELSE IF Truthy(data.expiry_date) /\ parse_date(data.expiry_date) = NoDate
    THEN Outcome(db, error_response(op,
                     "Invalid Expiry Date format. Use YYYY-MM-DD", 400))
    ELSE IF data.sku.t # "str" THEN failed
    ELSE
    LET quantity == int(data.quantity)
        expiry_date == IF Truthy(data.expiry_date)
                       THEN parse_date(data.expiry_date) ELSE NoDate
        new_product == [Product(0, strip(data.sku.s), data.barcode,
                                quantity.v, data.category_id.v,
                                data.supplier_id.v)
                           EXCEPT !.expiry_date = expiry_date]
        sess == [EmptySession EXCEPT !.new_products = <<new_product>>]
        c == commit(db, sess, storage_ok)
        id == db.next_product_id
    IN
    IF quantity.raised = "ValueError"
    THEN Outcome(rollback(db, EmptySession),
                 error_response(op, "Invalid data format", 400))
    ELSE IF quantity.raised # "none" THEN failed
    ELSE IF c.raised # "none"
    THEN Outcome(rollback(c.db, sess),
                 error_response(op, "Product insertion failed!", 500))
    ELSE
    LET created == [Response(op, 201, "New Product inserted successfully")
                        EXCEPT !.quantity = c.db.products[id].quantity]
        sess2 == Changed(c.db.products[id],
                         [c.db.products[id] EXCEPT
                             !.barcode = generate_barcode(id)])
        c2 == commit(c.db, sess2, storage_ok)
    IN
    IF c.db.products[id].barcode # NoBarcode THEN Outcome(c.db, created)
    ELSE IF ~barcode_ok THEN Outcome(c.db, created)
    ELSE IF c2.raised # "none"
    \* the failed commit is swallowed; to_dict then hits the broken session
    THEN Outcome(rollback(c2.db, sess2),
                 error_response(op, "Product insertion failed!", 500))
    ELSE Outcome(c2.db, created)

update_product(db, product_id, data, storage_ok) ==
    LET op == "update_product"
        failed == Outcome(rollback(db, EmptySession),
                          error_response(op, "Failed to update product", 500))
    IN
    IF product_id \notin DOMAIN db.products
    THEN Outcome(db, error_response(op, "Product not found", 404))
    ELSE
    LET product == db.products[product_id]
        \* the duplicate check filters on the Python value
        \* (product.id != product_id), which is False: it finds nothing
        existing == \E p \in DOMAIN db.products :
                        /\ db.products[p].sku = upper(strip(data.sku.s))
                        /\ product.id # product_id
        quantity == int(data.quantity)
        p1 == IF data.sku.t = "str"
              THEN [product EXCEPT !.sku = upper(strip(data.sku.s))]
              ELSE product
        p2 == IF data.quantity.t # "absent"
              THEN [p1 EXCEPT !.quantity = quantity.v] ELSE p1
        p3 == IF data.category_id.t # "absent"
              THEN [p2 EXCEPT !.category_id = data.category_id.v] ELSE p2
        p4 == IF data.supplier_id.t # "absent"
              THEN [p3 EXCEPT !.supplier_id = data.supplier_id.v] ELSE p3
        p5 == IF data.expiry_date.t = "absent" THEN p4
              ELSE IF Truthy(data.expiry_date)
              THEN [p4 EXCEPT !.expiry_date = parse_date(data.expiry_date)]
              ELSE [p4 EXCEPT !.expiry_date = NoDate]
        sess == Changed(product, p5)
        c == commit(db, sess, storage_ok)
    IN
    IF data.sku.t = "null" THEN failed
    ELSE IF data.sku.t = "str" /\ existing
    THEN Outcome(db, error_response(op, "SKU already exists", 400))
    ELSE IF data.quantity.t # "absent" /\ quantity.raised = "ValueError"
    THEN Outcome(db, error_response(op, "Invalid Data format", 400))
    ELSE IF data.quantity.t # "absent" /\ quantity.raised # "none" THEN failed
    ELSE IF /\ data.category_id.t # "absent"
            /\ data.category_id.v \notin db.categories
    THEN Outcome(db, error_response(op, "Category not found", 404))
    ELSE IF /\ data.supplier_id.t # "absent"
            /\ data.supplier_id.v \notin db.suppliers
    THEN Outcome(db, error_response(op, "Supplier not found", 404))
    ELSE IF Truthy(data.expiry_date) /\ parse_date(data.expiry_date) = NoDate
    THEN Outcome(db, error_response(op, "Invalid Expiry date format", 400))
    ELSE IF c.raised # "none"
    THEN Outcome(rollback(c.db, sess),
                 error_response(op, "Failed to update product", 500))
    ELSE Outcome(c.db,
                 [Response(op, 200, "updated successfully!") EXCEPT
                     !.quantity = c.db.products[product_id].quantity])

delete_product(db, identity, product_id, storage_ok) ==
    LET op == "delete_product"
        failed == Outcome(rollback(db, EmptySession),
                          error_response(op, "Failed to delete Product!", 500))
        current_user == UserGet(db, identity)
        sess == [EmptySession EXCEPT !.del_products = {product_id}]
        c == commit(db, sess, storage_ok)
    IN
    IF ~current_user.found THEN failed
    ELSE IF current_user.role # "admin"
    THEN Outcome(db, error_response(op, "Admin access required!", 403))
    ELSE IF product_id \notin DOMAIN db.products
    THEN Outcome(db, error_response(op, "Product not found", 404))
    ELSE IF c.raised # "none"
    THEN Outcome(rollback(c.db, sess),
                 error_response(op, "Failed to delete Product!", 500))
    ELSE Outcome(c.db, Response(op, 200, "Product deleted successfully"))

\* the listings give the products they select (ordered by quantity, each as
\* to_dict renders it); kept here as the set of the ids selected
get_expiring_products(db, days, utc_offset) ==
    LET expiry_threshold == LocalDate(db, utc_offset) + days
    IN  [status |-> 200,
         data |-> {p \in DOMAIN db.products :
                      /\ db.products[p].expiry_date # NoDate
                      /\ db.products[p].expiry_date <= expiry_threshold
                      /\ db.products[p].expiry_date >=
                             LocalDate(db, utc_offset)}]

get_all_expired(db, utc_offset) ==
    LET expiry_threshold == LocalDate(db, utc_offset)
    IN  [status |-> 200,
         data |-> {p \in DOMAIN db.products :
                      /\ db.products[p].expiry_date # NoDate
                      /\ db.products[p].expiry_date <= expiry_threshold}]

\* ----------------------------------------------------------- barcode routes
\* generate_barcode_for_product without the check "if product.barcode"
generate_barcode_for_product_anew(db, product_id, barcode_ok, storage_ok) ==
    LET op == "generate_barcode_for_product"
        failed == Outcome(rollback(db, EmptySession),
                          error_response(op, "Failed to generate Barcode",
                                         500))
    IN
    IF product_id \notin DOMAIN db.products
    THEN Outcome(db, error_response(op, "Product not found", 404))
    ELSE
    LET product == db.products[product_id]
        sess == Changed(product,
                        [product EXCEPT
                            !.barcode = generate_barcode(product.id)])
        c == commit(db, sess, storage_ok)
    IN
    IF ~barcode_ok THEN failed
    ELSE IF c.raised # "none"
    THEN Outcome(rollback(c.db, sess),
                 error_response(op, "Failed to generate Barcode", 500))
    ELSE Outcome(c.db, [Response(op, 200, "Barcode generated successfully")
                           EXCEPT !.barcode = c.db.products[product_id].barcode])

\* barcode_ok is generate_and_save_barcode writing the image without error
generate_barcode_for_product(db, product_id, barcode_ok, storage_ok) ==
    LET op == "generate_barcode_for_product"
        failed == Outcome(rollback(db, EmptySession),
                          error_response(op, "Failed to generate Barcode",
                                         500))
    IN
    IF product_id \notin DOMAIN db.products
    THEN Outcome(db, error_response(op, "Product not found", 404))
    ELSE
    LET product == db.products[product_id]
        sess == Changed(product,
                        [product EXCEPT
                            !.barcode = generate_barcode(product.id)])
        c == commit(db, sess, storage_ok)
    IN
    IF product.barcode # NoBarcode
    THEN Outcome(db, [Response(op, 200, "Product already has a Barcode")
                         EXCEPT !.barcode = product.barcode])
    ELSE IF ~barcode_ok THEN failed
    ELSE IF c.raised # "none"
    THEN Outcome(rollback(c.db, sess),
                 error_response(op, "Failed to generate Barcode", 500))
    ELSE Outcome(c.db, [Response(op, 200, "Barcode generated successfully")
                           EXCEPT !.barcode = c.db.products[product_id].barcode])

\* the handler does not roll back when it fails: the session is removed
\* with the request, and nothing of it reaches the tables
regenerate_barcode(db, product_id, barcode_ok, storage_ok) ==
    LET op == "regenerate_barcode"
        failed == Outcome(db, error_response(op,
                                             "Failed to regenerate Barcode!",
                                             500))
    IN
    IF product_id \notin DOMAIN db.products
    THEN Outcome(db, error_response(op, "Product not found", 404))
    ELSE
    LET product == db.products[product_id]
        sess == Changed(product,
                        [product EXCEPT
                            !.barcode = generate_barcode(product.id)])
        c == commit(db, sess, storage_ok)
    IN
    IF ~barcode_ok THEN failed
    ELSE IF c.raised # "none" THEN failed
    ELSE Outcome(c.db,
                 [Response(op, 200, "Barcode regenerated successfully")
                     EXCEPT !.barcode = c.db.products[product_id].barcode])

\* ---------------------------------------------- category and supplier routes
delete_category(db, identity, category_id, storage_ok) ==
    LET op == "delete_category"
        failed == Outcome(rollback(db, EmptySession),
                          error_response(op, "Failed to delete Category", 500))
        current_user == UserGet(db, identity)
        sess == [EmptySession EXCEPT !.del_categories = {category_id}]
        c == commit(db, sess, storage_ok)
    IN
    IF category_id \notin db.categories
    THEN Outcome(db, error_response(op, "Category not found", 404))
    ELSE IF ~current_user.found THEN failed
    ELSE IF current_user.role # "admin"
    THEN Outcome(db, error_response(op, "Admin access required", 403))
    ELSE IF c.raised # "none"
    THEN Outcome(rollback(c.db, sess),
                 error_response(op, "Failed to delete Category", 500))
    ELSE Outcome(c.db, Response(op, 200, "Category deleted"))

delete_supplier(db, identity, supplier_id, storage_ok) ==
    LET op == "delete_supplier"
        failed == Outcome(rollback(db, EmptySession),
                          error_response(op, "Failed to delete supplier", 500))
        current_user == UserGet(db, identity)
        sess == [EmptySession EXCEPT !.del_suppliers = {supplier_id}]
        c == commit(db, sess, storage_ok)
    IN
    IF ~current_user.found THEN failed
    \* a role other than admin is logged and the handler goes on
    ELSE IF supplier_id \notin db.suppliers
    THEN Outcome(db, error_response(op, "Supplier not found", 404))
    ELSE IF c.raised # "none"
    THEN Outcome(rollback(c.db, sess),
                 error_response(op, "Failed to delete supplier", 500))
    ELSE Outcome(c.db, Response(op, 200, "Supplier deleted successfully"))

\* -------------------------------------------------------------- auth routes
\* text fields of a request body, as sequences of characters
Text(s) == [t |-> "str", s |-> s]
TextAbsent == [t |-> "absent", s |-> <<>>]
TextEmpty == [t |-> "empty", s |-> <<>>]

\* str.lower() on the characters of an e-mail address
lower(s) ==
    [i \in 1..Len(s) |-> CASE s[i] = "A" -> "a" [] s[i] = "B" -> "b"
                           [] OTHER -> s[i]]

\* werkzeug's generate_password_hash: the salt it draws and the digest of
\* salt and password; the digest is kept as the password it was made from
\* (a hash function without collisions)
generate_password_hash(password, salt) ==
    [salt |-> salt, digest |-> password]

\* werkzeug's check_password_hash: hash the candidate with the stored salt
check_password_hash(pwhash, password) ==
    pwhash = generate_password_hash(password, pwhash.salt)

User(username, email, hashed_password, role) ==
    [username |-> username, email |-> email,
     hashed_password |-> hashed_password, role |-> role]

set_password(user, password, salt) ==
    [user EXCEPT !.hashed_password = generate_password_hash(password, salt)]

check_password(user, password) ==
    check_password_hash(user.hashed_password, password)

\* salt is the salt generate_password_hash draws, storage_ok the storage
\* engine accepting the commit of the new row; the row gets the next id of
\* the autoincrement (no route deletes a user)
register(db, data, salt, storage_ok) ==
    LET op == "register" IN
    IF ~validate_required_fields(data, <<"username", "email", "password">>)
    THEN Outcome(db, error_response(op,
                     "Authentication Failed! Missing required fields", 400))
    ELSE
    LET username == strip(data.username.s)
        email == lower(strip(data.email.s))
        password == strip(data.password.s)
        role == IF data.role.t = "absent" THEN "staff" ELSE data.role.s
        id == Cardinality(DOMAIN db.users) + 1
        new_user == set_password(User(username, email, password, role),
                                 password, salt)
    IN
    IF role \notin {"admin", "staff"}
    THEN Outcome(db, error_response(op,
                     "Role must be either \"admin\" or \"staff\"", 400))
    ELSE IF \E u \in DOMAIN db.users : db.users[u].username = username
    THEN Outcome(db, error_response(op, "Username already exists!", 400))
    ELSE IF \E u \in DOMAIN db.users : db.users[u].email = email
    THEN Outcome(db, error_response(op, "Email already registered!", 400))
    ELSE IF Len(password) < MinPasswordLen
    THEN Outcome(db, error_response(op,
                     "Password must be at least 6 characters", 400))
    ELSE IF ~storage_ok
    THEN Outcome(rollback(db, EmptySession),
                 error_response(op, "Registration failed!", 500))
    ELSE Outcome([db EXCEPT !.users = (id :> new_user) @@ db.users],
                 Response(op, 201, "User registered successfully!"))

login(db, data) ==
    LET op == "login" IN
    IF ~validate_required_fields(data, <<"username", "password">>)
    THEN Outcome(db, error_response(op, "Missing required fields", 400))
    ELSE
    LET username == strip(data.username.s)
        password == data.password.s
        found == {u \in DOMAIN db.users : db.users[u].username = username}
    IN
    IF found = {}
    THEN Outcome(db, error_response(op, "Invalid username or password", 401))
    ELSE IF ~check_password(db.users[CHOOSE u \in found : TRUE], password)
    THEN Outcome(db, error_response(op, "Invalid username or password", 401))
    ELSE Outcome(db, Response(op, 200, "Login successful"))

\* ------------------------------------------------------------------ inputs
ProductIdInputs == 1..(MaxProducts + 1)
IntInputs == (-1)..(MaxQty + 1)

\* a movement request: who asks, whether the storage engine accepts the
\* commit, and the JSON body
StockRequest(identity, storage_ok, p, q, notes) ==
    [identity |-> identity, storage_ok |-> storage_ok,
     data |-> [product_id |-> JInt(p), quantity |-> JInt(q), notes |-> notes]]

\* the requests of users 1 (admin) and 2 (staff) that the storage accepts
RegularRequests ==
    {StockRequest(c[1], TRUE, p, q, c[2]) :
        c \in {<<1, NotesStr(<<"a", " ">>)>>, <<2, NotesStr(<<" ">>)>>},
        p \in 1..MaxProducts, q \in 0..MaxQty}

\* requests that cannot succeed: identity 3 is a token whose user row does
\* not exist, the storage engine refuses the commit, "notes" is null, the
\* product id was never handed out
FailingRequests ==
    {StockRequest(c[1], c[2], 1, q, c[3]) :
        c \in {<<3, TRUE, NotesAbsent>>, <<1, FALSE, NotesAbsent>>,
               <<1, TRUE, NotesNull>>},
        q \in {0, 1}}
      \cup
    {StockRequest(1, TRUE, MaxProducts + 1, 1, NotesAbsent)}

\* requests whose notes start with blanks
PaddedRequests ==
    {StockRequest(2, TRUE, 1, q, NotesStr(<<" ", "a">>)) : q \in {1, MaxQty}}

StockRequests == RegularRequests \cup PaddedRequests \cup FailingRequests

SkuStr(s) == [t |-> "str", s |-> s]
SkuAbsent == [t |-> "absent", s |-> <<>>]

InsertRequest(sku, quantity, category_id, supplier_id, storage_ok) ==
    [storage_ok |-> storage_ok, barcode_ok |-> TRUE,
     data |-> [sku |-> sku, quantity |-> quantity,
               category_id |-> JInt(category_id),
               supplier_id |-> JInt(supplier_id), barcode |-> NoBarcode,
               expiry_date |-> JAbsent]]

InsertRequests ==
    {InsertRequest(sku, JInt(q), 1, 1, TRUE) :
        sku \in {SkuStr(<<"A">>), SkuStr(<<"B", " ">>)}, q \in (-1)..MaxQty}
      \cup
    {InsertRequest(SkuStr(<<"A">>), JInt(1), 1, 1, FALSE),
     InsertRequest(SkuStr(<<"A">>), JInt(1), 2, 1, TRUE),
     InsertRequest(SkuStr(<<"A">>), JInt(1), 1, 2, TRUE),
     InsertRequest(SkuStr(<<"A">>), JBad, 1, 1, TRUE),
     InsertRequest(SkuAbsent, JInt(1), 1, 1, TRUE)}

UpdateRequest(p, sku, quantity, category_id, storage_ok) ==
    [product_id |-> p, storage_ok |-> storage_ok,
     data |-> [sku |-> sku, quantity |-> quantity,
               category_id |-> category_id, supplier_id |-> JAbsent,
               expiry_date |-> JAbsent]]

UpdateRequests ==
    {UpdateRequest(p, SkuAbsent, JInt(q), JAbsent, TRUE) :
        p \in 1..MaxProducts, q \in (-1)..MaxQty}
      \cup
    {UpdateRequest(p, SkuStr(<<"b">>), JAbsent, JAbsent, TRUE) :
        p \in 1..MaxProducts}
      \cup
    {UpdateRequest(1, SkuAbsent, JInt(1), JAbsent, FALSE),
     UpdateRequest(1, SkuAbsent, JBad, JAbsent, TRUE),
     UpdateRequest(1, SkuAbsent, JAbsent, JInt(2), TRUE),
     UpdateRequest(MaxProducts + 1, SkuAbsent, JInt(1), JAbsent, TRUE)}

\* a deletion: who asks, which row, whether the storage accepts the commit
DeleteRequests(ids) ==
    {[identity |-> c, id |-> i, storage_ok |-> TRUE] :
        c \in {1, 2}, i \in ids}
      \cup
    {[identity |-> 3, id |-> 1, storage_ok |-> TRUE],
     [identity |-> 1, id |-> 1, storage_ok |-> FALSE]}

\* the part of the state space that is explored
Bounded(db) ==
    /\ db.next_tx_id <= MaxLedger + 1
    /\ db.next_product_id <= MaxProducts + 1
    /\ \A p \in DOMAIN db.products : db.products[p].quantity <= MaxQty

\* ----------------------------------------------------------------- actions
Apply(outcome) ==
    /\ Bounded(outcome.db)
    /\ Install(outcome.db)
    /\ UNCHANGED reqs

StockIn ==
    \E r \in StockRequests :
        Apply(stock_in(DB, r.identity, r.data, r.storage_ok))

StockOut ==
    \E r \in StockRequests :
        Apply(stock_out(DB, r.identity, r.data, r.storage_ok))

InsertProduct ==
    \E r \in InsertRequests :
        Apply(insert_product(DB, r.data, r.barcode_ok, r.storage_ok))

UpdateProduct ==
    \E r \in UpdateRequests :
        Apply(update_product(DB, r.product_id, r.data, r.storage_ok))

DeleteProduct ==
    \E r \in DeleteRequests(ProductIdInputs) :
        Apply(delete_product(DB, r.identity, r.id, r.storage_ok))

DeleteCategory ==
    \E r \in DeleteRequests({1, 2}) :
        Apply(delete_category(DB, r.identity, r.id, r.storage_ok))

DeleteSupplier ==
    \E r \in DeleteRequests({1, 2}) :
        Apply(delete_supplier(DB, r.identity, r.id, r.storage_ok))

\* ----------------------------------------------------------- specification
Init ==
    /\ products = <<>>
    /\ ledger = {}
    /\ users = (1 :> [role |-> "admin"]) @@ (2 :> [role |-> "staff"])
    /\ categories = {1}
    /\ suppliers = {1}
    /\ next_product_id = 1
    /\ next_tx_id = 1
    /\ now = 0
    /\ reqs = <<>>

Next ==
    \/ StockIn
    \/ StockOut
    \/ InsertProduct
    \/ UpdateProduct
    \/ DeleteProduct
    \/ DeleteCategory
    \/ DeleteSupplier

Spec == Init /\ [][Next]_vars

\* ------------------------------------------------------ concurrent requests
\* Every request works on a session of its own.  A movement reads the
\* product, checks and changes the loaded object (Begin), and later flushes
\* and commits (Commit); between the two, other requests may commit.
RequestIds == 1..MaxReq

\* SKUs of the products a run of concurrent movements starts with
SkuOf(p) == [i \in 1..p |-> "A"]

ConcurrentRequests ==
    {StockRequest(identity, TRUE, p, q, NotesAbsent) :
        identity \in {2}, p \in 1..MaxProducts, q \in 1..MaxQty}

\* transactions queued by requests that have not committed yet
Pending == Cardinality(DOMAIN reqs)

BeginStockIn(r) ==
    /\ r \notin DOMAIN reqs
    /\ next_tx_id + Pending <= MaxConcLedger
    /\ \E req \in ConcurrentRequests :
          LET b == stock_in_begin(DB, req.identity, req.data)
          IN  /\ b.ok
              /\ reqs' = (r :> [op |-> "stock_in", sess |-> b.sess]) @@ reqs
    /\ UNCHANGED <<products, ledger, users, categories, suppliers,
                   next_product_id, next_tx_id, now>>

BeginStockOut(r) ==
    /\ r \notin DOMAIN reqs
    /\ next_tx_id + Pending <= MaxConcLedger
    /\ \E req \in ConcurrentRequests :
          LET b == stock_out_begin(DB, req.identity, req.data)
          IN  /\ b.ok
              /\ reqs' = (r :> [op |-> "stock_out", sess |-> b.sess]) @@ reqs
    /\ UNCHANGED <<products, ledger, users, categories, suppliers,
                   next_product_id, next_tx_id, now>>

CommitStock(r) ==
    /\ r \in DOMAIN reqs
    /\ \E storage_ok \in BOOLEAN :
          LET o == IF reqs[r].op = "stock_in"
                   THEN stock_in_commit(DB, reqs[r].sess, storage_ok)
                   ELSE stock_out_commit(DB, reqs[r].sess, storage_ok)
          IN  /\ \A p \in DOMAIN o.db.products :
                    o.db.products[p].quantity <= MaxQty
              /\ Install(o.db)
    /\ reqs' = [q \in DOMAIN reqs \ {r} |-> reqs[q]]

InitConc ==
    /\ products \in
          {[p \in 1..MaxProducts |->
               Product(p, SkuOf(p), generate_barcode(p), f[p], 1, 1)] :
             f \in [1..MaxProducts -> 0..MaxQty]}
    /\ ledger = {}
    /\ users = (1 :> [role |-> "admin"]) @@ (2 :> [role |-> "staff"])
    /\ categories = {1}
    /\ suppliers = {1}
    /\ next_product_id = MaxProducts + 1
    /\ next_tx_id = 1
    /\ now = 0
    /\ reqs = <<>>

NextConc ==
    \E r \in RequestIds :
        \/ BeginStockIn(r)
        \/ BeginStockOut(r)
        \/ CommitStock(r)

SpecConc == InitConc /\ [][NextConc]_vars

\* -------------------------------------------------------------- statistics
\* the default range of the statistics, in hours
Month == DefaultRangeDays * HoursPerDay

\* datetime.now() is the local time of the server, datetime.utcnow() the
\* clock: the two differ by the offset of the server's time zone, which the
\* application does not set
UtcOffsets == {-1, 0, 1}

\* request.args.get('from_date'): not given, a date 'YYYY-MM-DD' (numbered
\* by its day), or a date with a time (numbered by its hour)
ArgAbsent == [t |-> "absent", v |-> 0]
ArgDate(day) == [t |-> "date", v |-> day]
ArgDateTime(hour) == [t |-> "datetime", v |-> hour]

\* the instant the database compares Transaction.date with: a date without
\* a time is the midnight that starts it
Instant(arg) == IF arg.t = "date" THEN arg.v * HoursPerDay ELSE arg.v

\* sum(t.quantity for t in transactions)
RECURSIVE SumQuantity(_)
SumQuantity(S) ==
    IF S = {} THEN 0
    ELSE LET t == CHOOSE x \in S : TRUE
         IN  t.quantity + SumQuantity(S \ {t})

\* get_transaction_stats with "Transaction.date < to_date" for "<="
get_transaction_stats_open(db, from_date, to_date, utc_offset) ==
    LET now_local == db.now + utc_offset
        from == IF from_date.t = "absent" THEN now_local - Month
                ELSE Instant(from_date)
        to == IF to_date.t = "absent" THEN now_local ELSE Instant(to_date)
        transactions == {t \in db.ledger : t.date >= from /\ t.date < to}
        ins == {t \in transactions : t.type = "IN"}
        outs == {t \in transactions : t.type = "OUT"}
    IN  [status |-> 200,
         total_transactions |-> Cardinality(transactions),
         stock_in |-> [count |-> Cardinality(ins),
                       quantity |-> SumQuantity(ins)],
         stock_out |-> [count |-> Cardinality(outs),
                        quantity |-> SumQuantity(outs)]]

get_transaction_stats(db, from_date, to_date, utc_offset) ==
    LET now_local == db.now + utc_offset
        from == IF from_date.t = "absent" THEN now_local - Month
                ELSE Instant(from_date)
        to == IF to_date.t = "absent" THEN now_local ELSE Instant(to_date)
        transactions == {t \in db.ledger : t.date >= from /\ t.date <= to}
        ins == {t \in transactions : t.type = "IN"}
        outs == {t \in transactions : t.type = "OUT"}
    IN  [status |-> 200,
         total_transactions |-> Cardinality(transactions),
         stock_in |-> [count |-> Cardinality(ins),
                       quantity |-> SumQuantity(ins)],
         stock_out |-> [count |-> Cardinality(outs),
                        quantity |-> SumQuantity(outs)]]

\* ------------------------------------------- movements on several products
\* Concurrent requests as above, on a stock of several products.
FrameRequests ==
    {StockRequest(2, TRUE, p, q, NotesAbsent) :
        p \in 1..MaxItems, q \in 1..MaxQty}

FrameBeginIn(r) ==
    /\ r \notin DOMAIN reqs
    /\ next_tx_id + Pending <= MaxFrameLedger
    /\ \E req \in FrameRequests :
          LET b == stock_in_begin(DB, req.identity, req.data)
          IN  /\ b.ok
              /\ reqs' = (r :> [op |-> "stock_in", sess |-> b.sess]) @@ reqs
    /\ UNCHANGED <<products, ledger, users, categories, suppliers,
                   next_product_id, next_tx_id, now>>

FrameBeginOut(r) ==
    /\ r \notin DOMAIN reqs
    /\ next_tx_id + Pending <= MaxFrameLedger
    /\ \E req \in FrameRequests :
          LET b == stock_out_begin(DB, req.identity, req.data)
          IN  /\ b.ok
              /\ reqs' = (r :> [op |-> "stock_out", sess |-> b.sess]) @@ reqs
    /\ UNCHANGED <<products, ledger, users, categories, suppliers,
                   next_product_id, next_tx_id, now>>

FrameCommit(r) ==
    /\ r \in DOMAIN reqs
    /\ LET o == IF reqs[r].op = "stock_in"
                THEN stock_in_commit(DB, reqs[r].sess, TRUE)
                ELSE stock_out_commit(DB, reqs[r].sess, TRUE)
       IN  /\ \A p \in DOMAIN o.db.products :
                 o.db.products[p].quantity <= MaxQty
           /\ Install(o.db)
    /\ reqs' = [q \in DOMAIN reqs \ {r} |-> reqs[q]]

InitFrame ==
    /\ products = [p \in 1..MaxItems |->
                      Product(p, SkuOf(p), generate_barcode(p), 1, 1, 1)]
    /\ ledger = {}
    /\ users = (1 :> [role |-> "admin"]) @@ (2 :> [role |-> "staff"])
    /\ categories = {1}
    /\ suppliers = {1}
    /\ next_product_id = MaxItems + 1
    /\ next_tx_id = 1
    /\ now = 0
    /\ reqs = <<>>

NextFrame ==
    \E r \in RequestIds :
        \/ FrameBeginIn(r)
        \/ FrameBeginOut(r)
        \/ FrameCommit(r)

SpecFrame == InitFrame /\ [][NextFrame]_vars

\* ------------------------------------------------------------- the catalog
\* Products are inserted with or without a barcode of their own, renamed,
\* given a barcode, and deleted.
CatalogIds == 1..(MaxCatalog + 1)

\* the barcodes a request can bring: none, the ones the generator gives to
\* the products of the catalog, and one it gives to none of them
CatalogBarcodes == {NoBarcode} \cup {generate_barcode(p) : p \in CatalogIds}

CatalogSkus == {<<"a">>, <<"b">>, <<"c">>}

CatalogInsertRequests ==
    {[InsertRequest(SkuStr(upper(sku)), JInt(0), 1, 1, TRUE) EXCEPT
         !.barcode_ok = barcode_ok, !.data.barcode = barcode] :
       sku \in CatalogSkus, barcode \in CatalogBarcodes,
       barcode_ok \in BOOLEAN}

CatalogUpdateRequests ==
    {UpdateRequest(p, SkuStr(sku), JAbsent, JAbsent, TRUE) :
        p \in CatalogIds, sku \in CatalogSkus}

CatalogBarcodeRequests ==
    {[product_id |-> p, barcode_ok |-> barcode_ok, storage_ok |-> storage_ok] :
        p \in CatalogIds, barcode_ok \in BOOLEAN, storage_ok \in BOOLEAN}

ApplyCatalog(outcome) ==
    /\ outcome.db.next_product_id <= MaxCatalog + 1
    /\ Install(outcome.db)
    /\ UNCHANGED reqs

CatalogInsert ==
    \E r \in CatalogInsertRequests :
        ApplyCatalog(insert_product(DB, r.data, r.barcode_ok, r.storage_ok))

CatalogUpdate ==
    \E r \in CatalogUpdateRequests :
        ApplyCatalog(update_product(DB, r.product_id, r.data, r.storage_ok))

CatalogDelete ==
    \E p \in CatalogIds : ApplyCatalog(delete_product(DB, 1, p, TRUE))

GenerateBarcode ==
    \E r \in CatalogBarcodeRequests :
        ApplyCatalog(generate_barcode_for_product(DB, r.product_id,
                                                  r.barcode_ok, r.storage_ok))

RegenerateBarcode ==
    \E r \in CatalogBarcodeRequests :
        ApplyCatalog(regenerate_barcode(DB, r.product_id, r.barcode_ok,
                                        r.storage_ok))

NextCatalog ==
    \/ CatalogInsert
    \/ CatalogUpdate
    \/ CatalogDelete
    \/ GenerateBarcode
    \/ RegenerateBarcode

SpecCatalog == Init /\ [][NextCatalog]_vars

\* ------------------------------------------------------ users and passwords
\* Users register and log in on a database that holds no user yet.
Letters(n) == [i \in 1..n |-> "a"]

\* passwords of the least length and longer, surrounded by blanks, too short
PasswordInputs ==
    {Letters(MinPasswordLen), Letters(MinPasswordLen + 1),
     Letters(MinPasswordLen) \o <<" ">>, <<" ">> \o Letters(MinPasswordLen),
     Letters(MinPasswordLen - 1), Letters(MinPasswordLen - 1) \o <<" ">>}

UsernameInputs == {<<"a">>, <<"b">>, <<" ", "a">>}

Salts == {1, 2}

RegisterRequests ==
    {[salt |-> salt, storage_ok |-> TRUE,
      data |-> [username |-> Text(username), email |-> Text(email),
                password |-> Text(password), role |-> role]] :
        username \in UsernameInputs, email \in {<<"a">>, <<"A">>, <<"b">>},
        password \in PasswordInputs, salt \in Salts,
        role \in {TextAbsent, Text("admin"), Text("root")}}
      \cup
    {[salt |-> 1, storage_ok |-> c[1],
      data |-> [username |-> Text(<<"a">>), email |-> Text(<<"a">>),
                password |-> c[2], role |-> TextAbsent]] :
        c \in {<<FALSE, Text(Letters(MinPasswordLen))>>, <<TRUE, TextAbsent>>,
               <<TRUE, TextEmpty>>}}

LoginRequests ==
    {[data |-> [username |-> Text(username), password |-> Text(password)]] :
        username \in UsernameInputs, password \in PasswordInputs}
      \cup
    {[data |-> [username |-> Text(<<"a">>), password |-> TextAbsent]]}

Register ==
    \E r \in RegisterRequests :
        LET o == register(DB, r.data, r.salt, r.storage_ok)
        IN  /\ Cardinality(DOMAIN o.db.users) <= MaxUsers
            /\ Install(o.db)
            /\ UNCHANGED reqs

Login ==
    \E r \in LoginRequests :
        /\ Install(login(DB, r.data).db)
        /\ UNCHANGED reqs

InitAuth ==
    /\ products = <<>>
    /\ ledger = {}
    /\ users = <<>>
    /\ categories = {1}
    /\ suppliers = {1}
    /\ next_product_id = 1
    /\ next_tx_id = 1
    /\ now = 0
    /\ reqs = <<>>

NextAuth ==
    \/ Register
    \/ Login

SpecAuth == InitAuth /\ [][NextAuth]_vars

\* ------------------------------------------------------- perishable products
\* One product; its expiry date is set, changed and cleared while the days
\* pass.  The clock is looked at in the first and in the last hour of a day.
ExpiryInputs ==
    {JDate(d) : d \in 0..MaxDay} \cup {JEmpty, JNull, JBad, JInt(0)}

ExpiryRequest(p, expiry_date) ==
    [UpdateRequest(p, SkuAbsent, JAbsent, JAbsent, TRUE) EXCEPT
        !.data.expiry_date = expiry_date]

SetExpiry ==
    \E j \in ExpiryInputs :
        LET r == ExpiryRequest(1, j)
            o == update_product(DB, r.product_id, r.data, r.storage_ok)
        IN  /\ Install(o.db)
            /\ UNCHANGED reqs

DayEnds ==
    /\ now % HoursPerDay = 0
    /\ now' = now + HoursPerDay - 1
    /\ UNCHANGED <<products, ledger, users, categories, suppliers,
                   next_product_id, next_tx_id, reqs>>

DayBegins ==
    /\ now % HoursPerDay = HoursPerDay - 1
    /\ now + 1 <= MaxDay * HoursPerDay
    /\ now' = now + 1
    /\ UNCHANGED <<products, ledger, users, categories, suppliers,
                   next_product_id, next_tx_id, reqs>>

InitExpiry ==
    /\ products = (1 :> Product(1, SkuOf(1), generate_barcode(1), 1, 1, 1))
    /\ ledger = {}
    /\ users = (1 :> [role |-> "admin"]) @@ (2 :> [role |-> "staff"])
    /\ categories = {1}
    /\ suppliers = {1}
    /\ next_product_id = 2
    /\ next_tx_id = 1
    /\ now = 0
    /\ reqs = <<>>

NextExpiry ==
    \/ SetExpiry
    \/ DayEnds
    \/ DayBegins

SpecExpiry == InitExpiry /\ [][NextExpiry]_vars

\* ------------------------------------------------- movements over the days
\* One product that holds one unit more than the low-stock limit; stock
\* moves in and out while the clock advances by hours and by months.
Advances(hour) == (hour \div Month) + (hour % Month)

TickHour ==
    /\ Advances(now + 1) <= MaxAdvances
    /\ now' = now + 1
    /\ UNCHANGED <<products, ledger, users, categories, suppliers,
                   next_product_id, next_tx_id, reqs>>

TickMonth ==
    /\ Advances(now + Month) <= MaxAdvances
    /\ now' = now + Month
    /\ UNCHANGED <<products, ledger, users, categories, suppliers,
                   next_product_id, next_tx_id, reqs>>

StatsRequests ==
    {StockRequest(2, TRUE, 1, q, NotesAbsent) : q \in 1..MaxQty}

RecordStockIn ==
    \E r \in StatsRequests :
        LET o == stock_in(DB, r.identity, r.data, r.storage_ok)
        IN  /\ o.db.next_tx_id <= MaxStatsLedger + 1
            /\ Install(o.db)
            /\ UNCHANGED reqs

RecordStockOut ==
    \E r \in StatsRequests :
        LET o == stock_out(DB, r.identity, r.data, r.storage_ok)
        IN  /\ o.db.next_tx_id <= MaxStatsLedger + 1
            /\ Install(o.db)
            /\ UNCHANGED reqs

InitStats ==
    /\ products = (1 :> Product(1, SkuOf(1), generate_barcode(1),
                                LowStockLimit + 1, 1, 1))
    /\ ledger = {}
    /\ users = (1 :> [role |-> "admin"]) @@ (2 :> [role |-> "staff"])
    /\ categories = {1}
    /\ suppliers = {1}
    /\ next_product_id = 2
    /\ next_tx_id = 1
    /\ now = 0
    /\ reqs = <<>>

NextStats ==
    \/ TickHour
    \/ TickMonth
    \/ RecordStockIn
    \/ RecordStockOut

SpecStats == InitStats /\ [][NextStats]_vars

\* =============================================================== properties
\* the body of a movement request
MovementData(p, q, notes) ==
    [product_id |-> JInt(p), quantity |-> JInt(q), notes |-> notes]

\* who sends a well-formed request, and the notes they give: the field left
\* out, or a string
Callers == {<<1, NotesAbsent>>, <<2, NotesStr(<<"a", " ">>)>>}

\* callers whose request may be one that cannot succeed: user 3 has a token
\* and no row
AnyCallers == {<<1, NotesAbsent>>, <<3, NotesStr(<<"a", " ">>)>>}

\* the ledger of db holds exactly one entry that ledger does not, and it is
\* a movement of q units of product p of the given kind
OneNewEntry(db, p, q, kind) ==
    /\ ledger \subseteq db.ledger
    /\ \E t \in db.ledger \ ledger :
          /\ db.ledger \ ledger = {t}
          /\ t.product_id = p
          /\ t.type = kind
          /\ t.quantity = q

\* db differs from the committed state in the quantity of product p alone
OnlyQuantityOf(db, p) ==
    /\ DOMAIN db.products = DOMAIN products
    /\ \A r \in DOMAIN products :
          db.products[r] =
              IF r = p
              THEN [products[r] EXCEPT !.quantity = db.products[r].quantity]
              ELSE products[r]
    /\ db.users = users
    /\ db.categories = categories
    /\ db.suppliers = suppliers
    /\ db.next_product_id = next_product_id

\* C1: in every reachable state the quantity of every product is >= 0
C1_QuantityNeverNegative ==
    \A p \in DOMAIN products : products[p].quantity >= 0

\* C2: every step that changes the quantity of a product adds exactly one
\* ledger entry, for that product, of the kind and quantity of the change
C2_ChangeHasMatchingEntry ==
    [][\A p \in DOMAIN products \cap DOMAIN products' :
          products'[p].quantity # products[p].quantity =>
             \E t \in ledger' \ ledger :
                /\ ledger' \ ledger = {t}
                /\ t.product_id = p
                /\ \/ /\ t.type = "IN"
                      /\ products'[p].quantity = products[p].quantity + t.quantity
                   \/ /\ t.type = "OUT"
                      /\ products'[p].quantity = products[p].quantity - t.quantity]_vars

\* C3: with stock-outs of one product running concurrently, no stored
\* quantity is negative in any state, and no request holds a negative
\* quantity it is about to write
C3_ConcurrentNeverNegative ==
    /\ \A p \in DOMAIN products : products[p].quantity >= 0
    /\ \A r \in DOMAIN reqs :
          \A p \in DOMAIN reqs[r].sess.dirty :
              reqs[r].sess.dirty[p].quantity >= 0

\* two stock-outs of one product have committed that together took more
\* than any product holds: both passed the check on the same stock
C3_Witness ==
    \E t, u \in ledger :
        /\ t.id # u.id
        /\ t.product_id = u.product_id
        /\ t.type = "OUT" /\ u.type = "OUT"
        /\ t.quantity + u.quantity > MaxQty
        /\ products[t.product_id].quantity >= 0

\* C4: a stock-out of q units, 0 < q <= Q, of a product holding Q succeeds,
\* leaves Q - q (0 when q = Q) and adds exactly one OUT entry of q for the
\* product and the actor
C4_StockOutWithinStock ==
    \A p \in DOMAIN products, c \in Callers, q \in 1..(MaxQty + 1) :
        q <= products[p].quantity =>
            LET identity == c[1]
                o == stock_out(DB, identity, MovementData(p, q, c[2]), TRUE)
                Q == products[p].quantity
            IN  /\ o.response.status = 201
                /\ o.response.quantity = Q - q
                /\ o.db.products[p].quantity = Q - q
                /\ q = Q => o.db.products[p].quantity = 0
                /\ OnlyQuantityOf(o.db, p)
                /\ OneNewEntry(o.db, p, q, "OUT")
                /\ o.response.transaction \in o.db.ledger \ ledger
                /\ o.response.transaction.user_id = identity

\* a stock-out of everything a product held has been recorded
C4_Witness ==
    \E t \in ledger :
        /\ t.type = "OUT"
        /\ t.quantity = MaxQty
        /\ t.product_id \in DOMAIN products
        /\ products[t.product_id].quantity = 0

\* C5: a stock-in of q > 0 units of a product holding Q succeeds, leaves
\* Q + q and adds exactly one IN entry of q for the product and the actor
C5_StockInAdds ==
    \A p \in DOMAIN products, c \in Callers, q \in 1..(MaxQty + 1) :
        LET identity == c[1]
            o == stock_in(DB, identity, MovementData(p, q, c[2]), TRUE)
            Q == products[p].quantity
        IN  /\ o.response.status = 201
            /\ o.response.quantity = Q + q
            /\ o.db.products[p].quantity = Q + q
            /\ OnlyQuantityOf(o.db, p)
            /\ OneNewEntry(o.db, p, q, "IN")
            /\ o.response.transaction \in o.db.ledger \ ledger
            /\ o.response.transaction.user_id = identity

\* a stock-in has been recorded for a product that held stock before it
C5_Witness ==
    \E t \in ledger :
        /\ t.type = "IN"
        /\ t.product_id \in DOMAIN products
        /\ products[t.product_id].quantity = MaxQty
        /\ t.quantity < MaxQty

EdgeQuantities == {0, 1, MaxQty, MaxQty + 1}

AllOrNothing(o, p, q, kind, storage_ok) ==
    IF o.response.status = 201
    THEN /\ storage_ok
         /\ OneNewEntry(o.db, p, q, kind)
         /\ OnlyQuantityOf(o.db, p)
         /\ o.db.products[p].quantity =
                products[p].quantity + (IF kind = "IN" THEN q ELSE 0 - q)
    ELSE o.db = DB

\* C8: a movement is atomic: the change of quantity and the ledger entry are
\* both committed or neither is, and a movement whose commit the storage
\* refuses fails and leaves the state it started from
C8_Atomic ==
    \A p \in ProductIdInputs, q \in EdgeQuantities, storage_ok \in BOOLEAN :
        LET i == stock_in(DB, 1, MovementData(p, q, NotesAbsent), storage_ok)
            o == stock_out(DB, 1, MovementData(p, q, NotesAbsent), storage_ok)
        IN  /\ AllOrNothing(i, p, q, "IN", storage_ok)
            /\ AllOrNothing(o, p, q, "OUT", storage_ok)
            /\ ~storage_ok => i.response.status # 201 /\ o.response.status # 201

\* a movement has been committed, and one that is ready to commit is refused
\* by the storage
C8_Witness ==
    \E t \in ledger :
        /\ t.product_id \in DOMAIN products
        /\ stock_in_begin(DB, t.user_id,
                          MovementData(t.product_id, 1, NotesAbsent)).ok
        /\ stock_in(DB, t.user_id, MovementData(t.product_id, 1, NotesAbsent),
                    FALSE).response.status = 500

\* C9: no step changes a ledger entry, and an entry disappears only in a
\* step that deletes the product it belongs to
C9_EntriesImmutable ==
    [][\A t \in ledger :
          \/ t \in ledger'
          \/ /\ t.product_id \in DOMAIN products
             /\ t.product_id \notin DOMAIN products'
             /\ \A u \in ledger' : u.id # t.id]_vars

\* an entry is still as it was written although the quantity of its product
\* was set anew afterwards
C9_Witness ==
    \E t \in ledger :
        /\ t.type = "OUT"
        /\ t.product_id \in DOMAIN products
        /\ products[t.product_id].quantity + t.quantity > MaxQty
        /\ t.date = now

\* C10: a movement that fails leaves the state unchanged, and fails with the
\* same error when the same request is issued again
C10_FailureIdempotent ==
    \A p \in ProductIdInputs, q \in EdgeQuantities, storage_ok \in BOOLEAN :
        LET data == MovementData(p, q, NotesStr(<<" ">>))
            i1 == stock_in(DB, 2, data, storage_ok)
            i2 == stock_in(i1.db, 2, data, storage_ok)
            o1 == stock_out(DB, 2, data, storage_ok)
            o2 == stock_out(o1.db, 2, data, storage_ok)
        IN  /\ i1.response.status # 201 =>
                  i2.response = i1.response /\ i2.db = DB
            /\ o1.response.status # 201 =>
                  o2.response = o1.response /\ o2.db = DB

\* after a recorded stock-out, each kind of failing request is refused:
\* an invalid quantity, more than the stock, an unknown product
C10_Witness ==
    \E t \in ledger :
        /\ t.type = "OUT"
        /\ t.product_id \in DOMAIN products
        /\ stock_out(DB, 1, MovementData(t.product_id, 0, NotesAbsent),
                     TRUE).response.status = 400
        /\ stock_out(DB, 1, MovementData(t.product_id, MaxQty + 1, NotesAbsent),
                     TRUE).response.message = "Insufficient stock"
        /\ stock_out(DB, 1, MovementData(MaxProducts + 1, 1, NotesAbsent),
                     TRUE).response.status = 404

\* C11: a stock-out that succeeds reports low_stock_warning exactly when the
\* quantity it leaves is <= 10: 10 gives TRUE, 11 gives FALSE, and the
\* movement succeeds and leaves Q - q either way
C11_LowStockWarning ==
    \A p \in DOMAIN products, q \in 1..(MaxQty + 1) :
        q <= products[p].quantity =>
            LET o == stock_out(DB, 2, MovementData(p, q, NotesAbsent), TRUE)
                left == products[p].quantity - q
            IN  /\ o.response.status = 201
                /\ o.db.products[p].quantity = left
                /\ o.response.quantity = left
                /\ o.response.low_stock_warning = (left <= 10)
                /\ left = 10 => o.response.low_stock_warning
                /\ left = 11 => ~o.response.low_stock_warning

\* after a recorded movement the product holds 12 units: taking one leaves
\* 11 and no warning, taking two leaves 10 and the warning
C11_Witness ==
    \E p \in DOMAIN products :
        /\ ledger # {}
        /\ products[p].quantity = 12
        /\ ~stock_out(DB, 2, MovementData(p, 1, NotesAbsent),
                      TRUE).response.low_stock_warning
        /\ stock_out(DB, 2, MovementData(p, 2, NotesAbsent),
                     TRUE).response.low_stock_warning

\* the quantities a request may name: integers, and a string that is none
\* a quantity that is none, one that is valid, one that is no number
QuantityInputs == {JInt(0), JInt(1), JBad}

RangeHours ==
    {a + b * Month : a \in 0..(MaxAdvances + 1), b \in 0..MaxAdvances}
RangeDays == {b * DefaultRangeDays : b \in 0..MaxAdvances}

\* the entries of the ledger of the given kind stamped from..to, both
\* bounds included
EntriesWithin(kind, from, to) ==
    {t \in ledger : t.type = kind /\ from <= t.date /\ t.date <= to}

\* the summed quantity of a set of entries, counted quantity by quantity
RECURSIVE QuantityUpTo(_, _)
QuantityUpTo(S, q) ==
    IF q = 0 THEN 0
    ELSE q * Cardinality({t \in S : t.quantity = q}) + QuantityUpTo(S, q - 1)

\* the statistics are the counts and sums of the entries stamped from..to
StatsOf(stats, from, to) ==
    LET ins == EntriesWithin("IN", from, to)
        outs == EntriesWithin("OUT", from, to)
    IN  /\ stats.status = 200
        /\ stats.stock_in.count = Cardinality(ins)
        /\ stats.stock_in.quantity = QuantityUpTo(ins, MaxQty)
        /\ stats.stock_out.count = Cardinality(outs)
        /\ stats.stock_out.quantity = QuantityUpTo(outs, MaxQty)
        /\ stats.total_transactions = Cardinality(ins) + Cardinality(outs)
        /\ stats.total_transactions =
               Cardinality({t \in ledger : from <= t.date /\ t.date <= to})
        /\ ins \cup outs = {} =>
               /\ stats.total_transactions = 0
               /\ stats.stock_in = [count |-> 0, quantity |-> 0]
               /\ stats.stock_out = [count |-> 0, quantity |-> 0]

\* C14: for every range the statistics give the number of entries with
\* from <= date <= to, the number and the summed quantity of the IN and of
\* the OUT entries among them, total = in + out, and zeros without an error
\* for a range that holds no entry
C14_Aggregate ==
    /\ \A from, to \in RangeHours :
          StatsOf(get_transaction_stats(DB, ArgDateTime(from),
                                        ArgDateTime(to), 0), from, to)
    /\ \A from, to \in RangeDays, utc_offset \in UtcOffsets :
          StatsOf(get_transaction_stats(DB, ArgDate(from), ArgDate(to),
                                        utc_offset),
                  from * HoursPerDay, to * HoursPerDay)

\* two stock-ins were recorded at different hours: the range that is the
\* hour of the first holds it alone, the range from the first to the second
\* holds both
C14_Witness ==
    \E t, u \in ledger :
        /\ t.type = "IN" /\ u.type = "IN"
        /\ t.date < u.date
        /\ get_transaction_stats(DB, ArgDateTime(t.date), ArgDateTime(t.date),
                                 0).total_transactions = 1
        /\ get_transaction_stats(DB, ArgDateTime(t.date), ArgDateTime(u.date),
                                 0).stock_in.quantity = t.quantity + u.quantity

\* C15: without a range the statistics are those of the entries stamped in
\* the last 30 days ending at the moment of the call, in whatever time zone
\* the server runs, so that an entry just recorded is counted
C15_DefaultRange ==
    \A utc_offset \in UtcOffsets :
        StatsOf(get_transaction_stats(DB, ArgAbsent, ArgAbsent, utc_offset),
                now - Month, now)

\* C16: every entry of the ledger is of kind IN or OUT and has a strictly
\* positive integer quantity
C16_EntriesWellFormed ==
    \A t \in ledger :
        /\ t.type \in {"IN", "OUT"}
        /\ t.quantity \in Nat \ {0}

\* a stock-out has been recorded
C16_Witness ==
    \E t \in ledger :
        /\ t.type = "OUT"
        /\ t.product_id \in DOMAIN products
        /\ t.quantity >= 1

\* C17: no two distinct products share a SKU, and no two distinct products
\* share a barcode that is set
C17_SkuAndBarcodeUnique ==
    \A p, r \in DOMAIN products :
        p # r =>
          /\ products[p].sku # products[r].sku
          /\ products[p].barcode # NoBarcode =>
                products[p].barcode # products[r].barcode

\* a product holds, as a barcode of its own, the barcode the generator gives
\* to another product of the catalog, and that other product has none
C17_Witness ==
    \E p, r \in DOMAIN products :
        /\ p # r
        /\ products[p].barcode = generate_barcode(r)
        /\ products[r].barcode = NoBarcode
        /\ regenerate_barcode(DB, r, TRUE, TRUE).response.status = 500
        /\ \E sku \in CatalogSkus :
              /\ products[p].sku = upper(sku)
              /\ update_product(DB, r, UpdateRequest(r, SkuStr(sku), JAbsent,
                                                     JAbsent, TRUE).data,
                                TRUE).response.status = 500

\* the entries of the ledger that refer to product b
EntriesOf(entries, b) == {t \in entries : t.product_id = b}

\* the tables db hold every product other than a as the state does, with
\* the same entries
OthersUntouched(db, a) ==
    \A b \in DOMAIN products \ {a} :
        /\ b \in DOMAIN db.products
        /\ db.products[b] = products[b]
        /\ EntriesOf(db.ledger, b) = EntriesOf(ledger, b)

\* C18: a movement on product a leaves every other product b as it was, its
\* quantity and the entries that refer to it: so for a movement handled in
\* one piece, and so for the commit of a movement that began while other
\* movements were under way
C18_OtherProductsUnchanged ==
    /\ [](\A a \in DOMAIN products, q \in 1..MaxQty :
             /\ OthersUntouched(stock_in(DB, 2, MovementData(a, q, NotesAbsent),
                                         TRUE).db, a)
             /\ OthersUntouched(stock_out(DB, 2,
                                          MovementData(a, q, NotesAbsent),
                                          TRUE).db, a))
    /\ [][\A r \in DOMAIN reqs \ DOMAIN reqs' :
             \A a \in DOMAIN reqs[r].sess.dirty :
                 /\ EntriesOf(ledger', a) # EntriesOf(ledger, a)
                 /\ \A b \in DOMAIN products \ {a} :
                       /\ b \in DOMAIN products'
                       /\ products'[b] = products[b]
                       /\ EntriesOf(ledger', b) = EntriesOf(ledger, b)]_vars

\* a stock-out of one product and a stock-in of another have committed: the
\* first holds one unit less than at the start, the second one unit more
C18_Witness ==
    \E t, u \in ledger :
        /\ t.product_id # u.product_id
        /\ t.type = "OUT" /\ u.type = "IN"
        /\ products[t.product_id].quantity = 1 - t.quantity
        /\ products[u.product_id].quantity = 1 + u.quantity

\* the product as update_product leaves it when given the expiry date j
WithExpiry(p, j) ==
    update_product(DB, p, ExpiryRequest(p, j).data, TRUE).db.products[p]

\* the days the server's calendar can show
Days == (-1)..(MaxDay + 1)

\* C19: a product is expired exactly when it has an expiry date and that
\* date is before the current date; one that expires today is not expired,
\* and one without an expiry date is not expired on any date
C19_IsExpired ==
    \A p \in DOMAIN products, utc_offset \in UtcOffsets :
        LET today == LocalDate(DB, utc_offset)
            product == products[p]
        IN  /\ is_expired(product, today) <=>
                  /\ product.expiry_date # NoDate
                  /\ product.expiry_date < today
            /\ product.expiry_date = today => ~is_expired(product, today)
            /\ product.expiry_date = NoDate =>
                  \A day \in Days : ~is_expired(product, day)
            /\ \A d \in 0..MaxDay :
                  is_expired(WithExpiry(p, JDate(d)), today) <=> d < today
            /\ \A day \in Days : ~is_expired(WithExpiry(p, JEmpty), day)

\* in the last hour of the day on which the product expires: it is not
\* expired on a server whose calendar shows that day, and it is on a server
\* whose calendar already shows the next one
C19_Witness ==
    \E p \in DOMAIN products :
        /\ products[p].expiry_date = LocalDate(DB, 0)
        /\ ~is_expired(products[p], LocalDate(DB, 0))
        /\ is_expired(products[p], LocalDate(DB, 1))

\* C20: the days left to expiry are the expiry date minus the current date,
\* positive for a date to come, zero on the day itself, negative afterwards,
\* and absent exactly when no expiry date is set; the product is expired
\* exactly when they are present and negative
C20_DaysUntilExpiry ==
    \A p \in DOMAIN products, utc_offset \in UtcOffsets :
        LET today == LocalDate(DB, utc_offset)
            product == products[p]
            left == days_left_to_expire(product, today)
        IN  /\ left.present <=> product.expiry_date # NoDate
            /\ left.present =>
                  /\ today + left.days = product.expiry_date
                  /\ left.days > 0 <=> product.expiry_date > today
                  /\ left.days = 0 <=> product.expiry_date = today
                  /\ left.days < 0 <=> product.expiry_date < today
            /\ is_expired(product, today) <=> left.present /\ left.days < 0
            /\ \A d \in 0..MaxDay :
                  days_left_to_expire(WithExpiry(p, JDate(d)), today) =
                      [present |-> TRUE, days |-> d - today]
            /\ ~days_left_to_expire(WithExpiry(p, JNull), today).present

\* the expiry date of the product lies more than a day back
C20_Witness ==
    \E p \in DOMAIN products :
        LET left == days_left_to_expire(products[p], LocalDate(DB, 0))
        IN  /\ left.present
            /\ left.days < -1
            /\ is_expired(products[p], LocalDate(DB, 0))

\* C21: a product is low on stock exactly when its quantity is at most the
\* threshold, 10 when none is given, and asking changes no field of the
\* product
C21_IsLowStock ==
    \A p \in DOMAIN products :
        LET product == products[p]
            low == is_low_stock(product, DefaultThreshold)
        IN  /\ low.value <=> product.quantity <= 10
            /\ low.self = product
            /\ \A threshold \in 0..(product.quantity - 1) :
                  /\ ~is_low_stock(product, threshold).value
                  /\ is_low_stock(product, threshold).self = product
            /\ \A threshold \in product.quantity..(product.quantity + MaxQty) :
                  /\ is_low_stock(product, threshold).value
                  /\ is_low_stock(product, threshold).self = product
            /\ \A q \in 1..MaxQty :
                  LET o == stock_out(DB, 2, MovementData(p, q, NotesAbsent),
                                     TRUE)
                  IN  o.response.status = 201 =>
                          o.response.low_stock_warning =
                              is_low_stock(o.db.products[p],
                                           DefaultThreshold).value

\* movements have brought a product to exactly 10 units: it is low on stock,
\* and was not with the 11 units it started from
C21_Witness ==
    \E p \in DOMAIN products, t \in ledger :
        /\ t.product_id = p
        /\ products[p].quantity = 10
        /\ is_low_stock(products[p], DefaultThreshold).value
        /\ ~is_low_stock([products[p] EXCEPT !.quantity = @ + 1],
                         DefaultThreshold).value

\* C22: a request to delete a supplier made by a user who is not an admin is
\* refused, and the supplier, its products and their ledger entries stay
C22_OnlyAdminDeletesSupplier ==
    \A supplier_id \in suppliers, identity \in DOMAIN users :
        users[identity].role # "admin" =>
            LET o == delete_supplier(DB, identity, supplier_id, TRUE)
            IN  /\ o.response.status = 403
                /\ supplier_id \in o.db.suppliers
                /\ o.db.products = products
                /\ o.db.ledger = ledger

\* C23: a user who has registered with a password logs in with the same
\* username and that password, and with no other password
C23_RegisterThenLogin ==
    \A r \in RegisterRequests :
        LET o == register(DB, r.data, r.salt, r.storage_ok)
            attempt(password) ==
                login(o.db, [username |-> r.data.username,
                             password |-> Text(password)]).response.status
        IN  o.response.status = 201 =>
                /\ attempt(r.data.password.s) = 200
                /\ \A password \in PasswordInputs \ {r.data.password.s} :
                      attempt(password) = 401

\* C24: whatever the interleaving of the movements on a product, its stored
\* quantity is the one unit it started with, plus the committed stock-ins,
\* minus the committed stock-outs
C24_NoLostMovement ==
    \A p \in DOMAIN products :
        LET ins == {t \in EntriesOf(ledger, p) : t.type = "IN"}
            outs == {t \in EntriesOf(ledger, p) : t.type = "OUT"}
        IN  products[p].quantity =
                1 + QuantityUpTo(ins, MaxQty) - QuantityUpTo(outs, MaxQty)

\* the tables db are the state without the products in gone and without
\* the ledger entries of those products
WithoutProducts(db, gone) ==
    /\ DOMAIN db.products = DOMAIN products \ gone
    /\ \A p \in DOMAIN db.products : db.products[p] = products[p]
    /\ db.ledger = {t \in ledger : t.product_id \notin gone}

\* C25: every ledger entry refers to a product that exists and every
\* product to a category and a supplier that exist; an admin's deletion of a
\* category or of a supplier removes it together with its products and the
\* ledger entries of those products, and nothing else
C25_CascadeKeepsReferences ==
    /\ \A t \in ledger : t.product_id \in DOMAIN products
    /\ \A p \in DOMAIN products :
          /\ products[p].category_id \in categories
          /\ products[p].supplier_id \in suppliers
    /\ \A category_id \in categories :
          LET o == delete_category(DB, 1, category_id, TRUE)
          IN  /\ o.response.status = 200
              /\ o.db.categories = categories \ {category_id}
              /\ WithoutProducts(o.db, {p \in DOMAIN products :
                                    products[p].category_id = category_id})
    /\ \A supplier_id \in suppliers :
          LET o == delete_supplier(DB, 1, supplier_id, TRUE)
          IN  /\ o.response.status = 200
              /\ o.db.suppliers = suppliers \ {supplier_id}
              /\ WithoutProducts(o.db, {p \in DOMAIN products :
                                    products[p].supplier_id = supplier_id})

\* a product with a recorded movement belongs to a category and a supplier
\* whose deletion takes the product and the entry along
C25_Witness ==
    \E t \in ledger :
        LET p == t.product_id
        IN  /\ p \in DOMAIN products
            /\ delete_category(DB, 1, products[p].category_id,
                               TRUE).db.ledger = {}
            /\ p \notin DOMAIN delete_supplier(DB, 1, products[p].supplier_id,
                                               TRUE).db.products

\* a complete request for a product that is not in the catalog, and the
\* requests made from it by leaving one required field out, null or empty
CompleteInsert == InsertRequest(SkuStr(<<"D">>), JInt(1), 1, 1, TRUE).data

IncompleteInserts ==
    {[CompleteInsert EXCEPT !.sku = sku] :
        sku \in {SkuAbsent, [t |-> "null", s |-> <<>>], SkuStr(<<>>)}}
      \cup
    {[CompleteInsert EXCEPT ![field] = j] :
        field \in {"quantity", "category_id", "supplier_id"},
        j \in {JAbsent, JNull, JEmpty}}

\* C26: a request to insert a product in which a required field is absent,
\* null or the empty string is refused and creates no product
C26_MissingFieldRejected ==
    \A data \in IncompleteInserts :
        LET o == insert_product(DB, data, TRUE, TRUE)
        IN  /\ o.response.status # 201
            /\ o.db.products = products
            /\ o.db.next_product_id = next_product_id

\* C27: an update that gives a product the SKU of another product is refused
\* with the validation error 'SKU already exists' and changes nothing; an
\* update that gives a product the SKU it has is accepted
C27_DuplicateSkuRejected ==
    \A p, r \in DOMAIN products :
        LET data == UpdateRequest(r, SkuStr(products[p].sku), JAbsent, JAbsent,
                                  TRUE).data
            o == update_product(DB, r, data, TRUE)
        IN  IF p = r
            THEN /\ o.response.status = 200
                 /\ o.db.products[r].sku = products[r].sku
            ELSE /\ o.response.status = 400
                 /\ o.response.message = "SKU already exists"
                 /\ o.db = DB

\* C28: on every date the listing of expired products holds exactly the
\* products that are expired, and the listing of expiring products holds
\* none of them
C28_ListingsAgree ==
    \A utc_offset \in UtcOffsets :
        LET today == LocalDate(DB, utc_offset)
            expired == {p \in DOMAIN products : is_expired(products[p], today)}
        IN  /\ get_all_expired(DB, utc_offset).data = expired
            /\ \A days \in {0, DefaultExpiringDays} :
                  get_expiring_products(DB, days, utc_offset).data
                      \cap expired = {}

\* the tables db hold the ledger and the quantities of the state, and every
\* product other than p as the state does
OnlyBarcodeOf(db, p) ==
    /\ db.ledger = ledger
    /\ DOMAIN db.products = DOMAIN products
    /\ \A b \in DOMAIN products :
          /\ db.products[b].quantity = products[b].quantity
          /\ b # p => db.products[b] = products[b]

====
